---- MODULE Spec2Model ----
(***************************************************************************)
(* A model of the clean_front client: the authentication context           *)
(* (AuthProvider), the commission data-access hooks (useCommissions.ts),    *)
(* the estimate list page (MyEstimates.tsx), the partner edit form          *)
(* (PartnerEdit.tsx), the estimate API functions and the commission form    *)
(* (api/estimate.ts).                                                       *)
(*                                                                         *)
(* JavaScript runs one event handler at a time, so every action below is    *)
(* one handler (or one continuation after an await) run to completion; a    *)
(* React state setter called in it is applied before the next event.        *)
(***************************************************************************)
EXTENDS Integers, Sequences, FiniteSets, TLC

\* ------------------------------------------------------------------ bounds

\* fetchProfile requests that may be in flight at once
MaxInFlight == 2

\* ------------------------------------------------------------ value domains

\* JavaScript null (localStorage.getItem of an absent key, member before a fetch)
null == "null"

\* token strings passed to login or found in storage at page load ("" included)
Tokens == {"", "t1", "t2"}

\* member profiles the member API may return
Profiles == {"alice", "bob"}

\* the two keys the client persists
StorageKeys == {"token", "refreshToken"}

\* every content localStorage can have for those keys: a key is absent or
\* holds a string
StorageStates ==
    UNION {[ks -> Tokens] : ks \in SUBSET StorageKeys}

VARIABLES
    \* AuthProvider
    isAuthenticated,  \* useState<boolean>(false)
    member,           \* useState<Member | null>(null)
    loading,          \* useState<boolean>(true)
    mounted,          \* whether the provider's mount effect has run
    storage,          \* window.localStorage, a function from the present keys
    inflight,         \* GET /members/profile requests awaiting a response:
                      \* the bearer token each one carries
    \* the react-query client used by hooks/useCommissions.ts
    queryCache,       \* a function from the cached query keys to their entries
    mutations,        \* commission mutations in flight: the hook, the variables
                      \* it was called with and the calls made to the API so far
    \* the page on screen
    route,            \* the current route
    lastAlert,        \* the message of the last window.alert, or null
    \* pages/partners/MyEstimates.tsx
    estimates,        \* useState<Estimate[]>([]): the estimates' ids, in order
    isLoading,        \* useState(false)
    listFetch,        \* the mount effect's fetch: "idle", "pending", "settled"
    deletes,          \* handleDelete calls suspended at their await: the id
                      \* and the estimates array their render closed over
    deleted,          \* the ids whose delete request has succeeded
    \* pages/partners/PartnerEdit.tsx
    partner,          \* useCurrentPartner().data (its key in PartnerData),
                      \* null until loaded
    formData,         \* useState<PartnerEditForm>
    errors,           \* useState<FormErrors>
    updates,          \* updatePartnerMutation.mutateAsync calls in flight
    withdraws,        \* withdrawPartnerMutation.mutateAsync calls in flight
    \* api/estimate.ts
    apiCalls,         \* calls of the estimate API functions suspended at their
                      \* await: the function and the requests it has sent
    form,             \* CommissionWrite: useState<Omit<Commission, ...>>
    \* history
    lastOp,           \* the handler that ran last, with its arguments
    prevOp            \* the handler that ran before it

sessionVars == <<isAuthenticated, member, loading, mounted, inflight>>

authVars == <<sessionVars, storage>>

cacheVars == <<queryCache, mutations>>

estimateVars == <<estimates, isLoading, listFetch, deletes, deleted>>

partnerVars == <<partner, formData, errors, updates, withdraws>>

writeVars == <<form>>

apiVars == <<apiCalls>>

pageVars == <<route, lastAlert, estimateVars, partnerVars, writeVars>>

vars == <<isAuthenticated, member, loading, mounted, storage, inflight,
          queryCache, mutations, route, lastAlert, estimates, isLoading,
          listFetch, deletes, deleted, partner, formData, errors, updates,
          withdraws, apiCalls, form, lastOp, prevOp>>

\* ------------------------------------------------------------ localStorage

getItem(st, k) == IF k \in DOMAIN st THEN st[k] ELSE null

setItem(st, k, v) == [x \in DOMAIN st \cup {k} |-> IF x = k THEN v ELSE st[x]]

removeItem(st, k) == [x \in DOMAIN st \ {k} |-> st[x]]

\* JavaScript truthiness of a string-or-null value: null and "" are falsy
Truthy(v) == v /= null /\ v /= ""

\* history bookkeeping shared by every handler
Ran(op) == lastOp' = op /\ prevOp' = lastOp

\* the same, for the handlers no claim relates to the handler before them
Did(op) == lastOp' = op /\ UNCHANGED prevOp

\* a JavaScript number, and null, where one field holds either
Num(n) == [type |-> "number", value |-> n]

JsNull == [type |-> "null"]

\* CommissionWrite's initial form (the string fields houseType, cleanType and
\* image are handled as significant is)
InitialForm ==
    [size |-> JsNull, addressId |-> Num(0), desiredDate |-> "",
     significant |-> ""]

\* the name attributes of the commission form's inputs: the address input is
\* named "address", and no input is named "addressId"
FormFieldNames == {"size", "address", "desiredDate", "significant"}

\* what e.target.value can be for each input: the size input has type
\* "number", so its value is "" or a numeric string
InputValues(name) ==
    IF name = "size" THEN {"", "0", "12"}
    ELSE IF name = "address" THEN {"", "Seoul"}
    ELSE IF name = "desiredDate" THEN {"", "2024-08-01T10:00"}
    ELSE {"", "pets"}

\* JavaScript Number(value) on the values of a number input: Number("") is 0
Number(value) ==
    IF value = "12" THEN 12 ELSE 0

\* handleChange, had it converted every value of a numeric field with Number
changedValue_NumberOnly(name, value) ==
    IF name = "addressId" \/ name = "size" THEN Num(Number(value)) ELSE value

\* name === 'addressId' || name === 'size'
\*   ? (value === '' ? null : Number(value)) : value
changedValue(name, value) ==
    IF name = "addressId" \/ name = "size"
    THEN (IF value = "" THEN JsNull ELSE Num(Number(value)))
    ELSE value

\* setForm((prev) => ({ ...prev, [name]: ... }))
formAfterChange(prev, name, value) ==
    [k \in DOMAIN prev \cup {name} |->
        IF k = name THEN changedValue(name, value) ELSE prev[k]]

\* new Date(s) is an Invalid Date for "", and toISOString() throws on it
IsValidDate(s) == s /= ""

\* new Date(s).toISOString() of a datetime-local value, the browser being in
\* the UTC+9 time zone
toISOString(s) ==
    IF s = "2024-08-01T10:00" THEN "2024-08-01T01:00:00.000Z" ELSE "Invalid Date"

\* { ...form, desiredDate: new Date(form.desiredDate).toISOString() }
newCommissionFrom(f) ==
    [k \in DOMAIN f |->
        IF k = "desiredDate" THEN toISOString(f.desiredDate) ELSE f[k]]

\* the form once the user has entered a size and a date
FilledForm ==
    formAfterChange(formAfterChange(InitialForm, "size", "12"),
                    "desiredDate", "2024-08-01T10:00")

\* the route the commission form is mounted at
CommissionWriteRoute == "CommissionWrite"

\* the initial values of the page components' state, before any page mounts
NoPage ==
    /\ route = "/"
    /\ lastAlert = null
    /\ estimates = <<>>
    /\ isLoading = FALSE
    /\ listFetch = "idle"
    /\ deletes = <<>>
    /\ deleted = {}
    /\ partner = null
    /\ formData = [password |-> "", confirmPassword |-> "", phoneNumber |-> "",
                   managerName |-> ""]
    /\ errors = [password |-> "", confirmPassword |-> "", phoneNumber |-> "",
                 managerName |-> "", general |-> ""]
    /\ updates = 0
    /\ withdraws = 0
    /\ form = InitialForm

\* --------------------------------------------------------- AuthProvider

AuthInit ==
    /\ isAuthenticated = FALSE
    /\ member = null
    /\ loading = TRUE
    /\ mounted = FALSE
    /\ storage \in StorageStates
    /\ inflight = <<>>
    /\ queryCache = <<>>
    /\ mutations = <<>>
    /\ apiCalls = <<>>
    /\ NoPage
    /\ lastOp = <<"none">>
    /\ prevOp = <<"none">>

\* Mount, had it fetched the profile eagerly when a token is stored
Mount_EagerFetch ==
    /\ ~mounted
    /\ mounted' = TRUE
    /\ isAuthenticated' =
         IF Truthy(getItem(storage, "token")) THEN TRUE ELSE isAuthenticated
    /\ loading' = TRUE
    /\ inflight' =
         IF Truthy(getItem(storage, "token"))
         THEN Append(inflight, getItem(storage, "token")) ELSE inflight
    /\ UNCHANGED <<member, storage>>
    /\ lastOp' = <<"mount">> /\ prevOp' = lastOp
    /\ UNCHANGED <<cacheVars, pageVars, apiVars>>

\* useEffect(() => {...}, []): the session is restored from storage alone
Mount ==
    /\ ~mounted
    /\ mounted' = TRUE
    /\ isAuthenticated' =
         IF Truthy(getItem(storage, "token")) THEN TRUE ELSE isAuthenticated
    /\ loading' = TRUE
    /\ UNCHANGED <<member, storage, inflight>>
    /\ Ran(<<"mount">>)
    /\ UNCHANGED <<cacheVars, pageVars, apiVars>>

\* login, had it written the refresh token under the access token's key
login_OneKey(token, refreshToken) ==
    /\ storage' = setItem(setItem(storage, "token", token), "token", refreshToken)
    /\ isAuthenticated' = TRUE
    /\ UNCHANGED member

\* login(token, refreshToken)
login(token, refreshToken) ==
    /\ storage' =
         setItem(setItem(storage, "token", token), "refreshToken", refreshToken)
    /\ isAuthenticated' = TRUE
    /\ UNCHANGED member

Login ==
    /\ mounted
    /\ \E t \in Tokens, r \in Tokens : login(t, r) /\ Ran(<<"login", t, r>>)
    /\ UNCHANGED <<loading, mounted, inflight>>
    /\ UNCHANGED <<cacheVars, pageVars, apiVars>>

\* logout, had it left the refresh token in storage
logout_KeepsRefreshToken ==
    /\ storage' = removeItem(storage, "token")
    /\ isAuthenticated' = FALSE
    /\ member' = null

\* logout, had it flipped the flag instead of clearing it
logout_TogglesFlag ==
    /\ storage' = removeItem(removeItem(storage, "token"), "refreshToken")
    /\ isAuthenticated' = ~isAuthenticated
    /\ member' = null

\* logout()
logout ==
    /\ storage' = removeItem(removeItem(storage, "token"), "refreshToken")
    /\ isAuthenticated' = FALSE
    /\ member' = null

Logout ==
    /\ mounted
    /\ logout
    /\ UNCHANGED <<loading, mounted, inflight>>
    /\ Ran(<<"logout">>)
    /\ UNCHANGED <<cacheVars, pageVars, apiVars>>

RemoveAt(s, i) == SubSeq(s, 1, i - 1) \o SubSeq(s, i + 1, Len(s))

\* fetchProfile() up to its await: the request leaves with the token that is
\* in storage at that moment
FetchProfile ==
    /\ mounted
    /\ Len(inflight) < MaxInFlight
    /\ inflight' = Append(inflight, getItem(storage, "token"))
    /\ UNCHANGED <<isAuthenticated, member, loading, mounted, storage>>
    /\ Ran(<<"fetchProfile">>)
    /\ UNCHANGED <<cacheVars, pageVars, apiVars>>

\* The member API answers a profile read with a profile only when the request
\* carried a bearer token; it may reject any request.
MayResolve(bearer) == Truthy(bearer)

\* fetchProfile() after its await, the request resolved: setMember(response.data)
fetchProfileResolved(i, profile) ==
    /\ MayResolve(inflight[i])
    /\ member' = profile
    /\ inflight' = RemoveAt(inflight, i)
    /\ UNCHANGED <<isAuthenticated, storage>>

FetchProfileResolved ==
    /\ \E i \in 1..Len(inflight), p \in Profiles : fetchProfileResolved(i, p)
    /\ UNCHANGED <<loading, mounted>>
    /\ Ran(<<"fetchResolved">>)
    /\ UNCHANGED <<cacheVars, pageVars, apiVars>>

\* the catch block, had it only dropped the profile
fetchProfileRejected_NoLogout(i) ==
    /\ inflight' = RemoveAt(inflight, i)
    /\ member' = null
    /\ UNCHANGED <<isAuthenticated, storage>>

\* fetchProfile() after its await, the request rejected: the catch block
fetchProfileRejected(i) ==
    /\ inflight' = RemoveAt(inflight, i)
    /\ logout

FetchProfileRejected ==
    /\ \E i \in 1..Len(inflight) : fetchProfileRejected(i)
    /\ UNCHANGED <<loading, mounted>>
    /\ Ran(<<"fetchRejected">>)
    /\ UNCHANGED <<cacheVars, pageVars, apiVars>>

AuthNext ==
    \/ Mount
    \/ Login
    \/ Logout
    \/ FetchProfile
    \/ FetchProfileResolved
    \/ FetchProfileRejected

SpecAuth == AuthInit /\ [][AuthNext]_vars

\* ------------------------------------------------- claims on AuthProvider

\* C1 (as claimed): in every reachable state a non-null member implies
\* isAuthenticated.
C1_MemberImpliesAuthenticated ==
    member /= null => isAuthenticated

\* C2: after login(t, r) completes, isAuthenticated is true and storage holds
\* exactly t under 'token' and exactly r under 'refreshToken'.
C2_LoginPost ==
    lastOp[1] = "login" =>
        /\ isAuthenticated
        /\ DOMAIN storage = StorageKeys
        /\ storage["token"] = lastOp[2]
        /\ storage["refreshToken"] = lastOp[3]

\* login has run from a logged-in session with a profile (the prior fetch
\* resolved), with two different token strings
C2_Witness ==
    /\ lastOp[1] = "login"
    /\ lastOp[2] /= lastOp[3]
    /\ prevOp[1] = "fetchResolved"
    /\ member /= null

\* C3: after logout(), from whatever state it was called in, isAuthenticated
\* is false, member is null and neither token key is in storage.
C3_LogoutPost ==
    lastOp[1] = "logout" =>
        /\ ~isAuthenticated
        /\ member = null
        /\ "token" \notin DOMAIN storage
        /\ "refreshToken" \notin DOMAIN storage

\* logout has run right after a profile fetch resolved, i.e. from
\* LoggedInWithProfile
C3_Witness ==
    /\ lastOp[1] = "logout"
    /\ prevOp[1] = "fetchResolved"

\* C4: a step in which a fetchProfile request rejects ends in the state
\* logout() produces (not authenticated, no member, both tokens removed); a
\* step in which it resolves changes member alone, to the returned profile.
C4_FetchProfileOutcome ==
    [][/\ lastOp'[1] = "fetchRejected" =>
            /\ isAuthenticated' = FALSE
            /\ member' = null
            /\ storage' = removeItem(removeItem(storage, "token"), "refreshToken")
            /\ DOMAIN storage' \cap StorageKeys = {}
       /\ lastOp'[1] = "fetchResolved" =>
            /\ member' \in Profiles
            /\ isAuthenticated' = isAuthenticated
            /\ storage' = storage
            /\ loading' = loading]_vars

\* a fetch has rejected in a session that had a profile and both tokens: the
\* rejection followed a resolved fetch
C4_Witness ==
    /\ lastOp[1] = "fetchRejected"
    /\ prevOp[1] = "fetchResolved"

\* C5: a logout() that follows a logout() changes nothing of the session:
\* isAuthenticated, member and storage stay as the first call left them.
C5_LogoutIdempotent ==
    [][(lastOp[1] = "logout" /\ lastOp'[1] = "logout") =>
            /\ isAuthenticated' = isAuthenticated
            /\ member' = member
            /\ storage' = storage]_vars

\* logout has run twice in succession
C5_Witness ==
    /\ lastOp[1] = "logout"
    /\ prevOp[1] = "logout"

\* C6: right after the mount effect, a non-empty stored token has made the
\* session authenticated with member still null and no request sent; with no
\* token stored the session is not authenticated and member is null.
C6_MountPost ==
    lastOp[1] = "mount" =>
        /\ Truthy(getItem(storage, "token")) =>
              isAuthenticated /\ member = null /\ inflight = <<>>
        /\ getItem(storage, "token") = null =>
              ~isAuthenticated /\ member = null /\ inflight = <<>>

\* the provider has mounted over a stored non-empty token
C6_Witness ==
    /\ lastOp[1] = "mount"
    /\ Truthy(getItem(storage, "token"))
    /\ isAuthenticated

\* ------------------------------------------- hooks/useCommissions.ts

\* commission ids the server assigns are 1..MaxCommissionId
MaxCommissionId == 2

CommissionIds == 1..MaxCommissionId

\* what the remaining fields of a commission hold
Contents == {"a", "b"}

\* the Commission records the commission API returns
Commissions == [commissionId : CommissionIds, content : Contents]

\* the key useCommissions() reads
ListKey == <<"commissions">>

\* the key useCommission(id) reads
ItemKey(id) == <<"commission", id>>

\* the item key useCreateCommission's onSuccess writes
CreateSeedKey(id) == <<"Commission", id>>

\* the item key useUpdateCommission's onSuccess writes
UpdateSeedKey(id) == <<"commission", id>>

\* whether a query key starts with the given filter key
KeyMatches(filter, key) ==
    /\ Len(filter) <= Len(key)
    /\ \A i \in 1..Len(filter) : key[i] = filter[i]

\* queryClient.invalidateQueries(filter): every cached query whose key starts
\* with the filter is marked invalidated; a key not in the cache stays out
invalidateQueries(cache, filter) ==
    [k \in DOMAIN cache |->
        IF KeyMatches(filter, k)
        THEN [cache[k] EXCEPT !.isInvalidated = TRUE]
        ELSE cache[k]]

\* queryClient.setQueryData(key, data): the entry is created or replaced and
\* is fresh; a resolved query function writes its entry the same way
setQueryData(cache, key, data) ==
    [k \in DOMAIN cache \cup {key} |->
        IF k = key THEN [data |-> data, isInvalidated |-> FALSE] ELSE cache[k]]

\* update and delete mutations their callers may have in flight at once
MaxCommissionMutations == 1

\* what a failed commission API call rejects with
MutationErrors == {"Network Error", "status 500"}

\* where CommissionWrite navigates after a successful create
CommissionListRoute == "/commissionlist"

\* createCommissionMutation.isPending
CreatePending == \E i \in 1..Len(mutations) : mutations[i].hook = "create"

\* the update and delete mutations in flight
OtherMutations == SelectSeq(mutations, LAMBDA m : m.hook /= "create")

CacheInit ==
    /\ isAuthenticated = FALSE
    /\ member = null
    /\ loading = TRUE
    /\ mounted = FALSE
    /\ storage = <<>>
    /\ inflight = <<>>
    /\ queryCache = <<>>
    /\ mutations = <<>>
    /\ apiCalls = <<>>
    /\ route = CommissionWriteRoute
    /\ lastAlert = null
    /\ estimates = <<>>
    /\ isLoading = FALSE
    /\ listFetch = "idle"
    /\ deletes = <<>>
    /\ deleted = {}
    /\ partner = null
    /\ formData = [password |-> "", confirmPassword |-> "", phoneNumber |-> "",
                   managerName |-> ""]
    /\ errors = [password |-> "", confirmPassword |-> "", phoneNumber |-> "",
                 managerName |-> "", general |-> ""]
    /\ updates = 0
    /\ withdraws = 0
    /\ form \in {InitialForm, FilledForm}
    /\ lastOp = <<"none">>
    /\ prevOp = <<"none">>

\* useCommissions(): api.fetchCommissions resolved with a list
FetchCommissionsResolved ==
    /\ \E ids \in SUBSET CommissionIds :
          queryCache' = setQueryData(queryCache, ListKey, ids)
    /\ UNCHANGED <<authVars, pageVars, apiVars, mutations>>
    /\ Did(<<"fetchCommissions">>)

\* useCommission(id): api.fetchCommission(id) resolved with the commission
FetchCommissionResolved ==
    /\ \E c \in Commissions :
          queryCache' = setQueryData(queryCache, ItemKey(c.commissionId), c)
    /\ UNCHANGED <<authVars, pageVars, apiVars, mutations>>
    /\ Did(<<"fetchCommission">>)

\* CommissionWrite.handleSubmit up to its await, run on a submit event: the
\* submit button is disabled while the create mutation is pending; building
\* the payload throws on an invalid date, which the catch block only logs
WriteHandleSubmit ==
    /\ route = CommissionWriteRoute
    /\ ~CreatePending
    /\ IF IsValidDate(form.desiredDate)
       THEN /\ mutations' =
                  Append(mutations, [hook |-> "create",
                                     variables |-> newCommissionFrom(form),
                                     attempts |-> 1])
            /\ Did(<<"writeSubmit", "awaiting">>)
       ELSE /\ UNCHANGED mutations
            /\ Did(<<"writeSubmit", "threw">>)
    /\ UNCHANGED <<authVars, pageVars, apiVars, queryCache>>

\* what the callers of the update and delete hooks pass to mutate: it goes to
\* the commission API only, and no hook reads it back
callerVariables == "callerVariables"

\* updateMutation.mutate(commission) by a caller of useUpdateCommission
MutateUpdate ==
    /\ Len(OtherMutations) < MaxCommissionMutations
    /\ mutations' = Append(mutations, [hook |-> "update",
                                       variables |-> callerVariables,
                                       attempts |-> 1])
    /\ UNCHANGED <<authVars, pageVars, apiVars, queryCache>>
    /\ Did(<<"mutateUpdate">>)

\* deleteMutation.mutate(id) by a caller of useDeleteCommission
MutateDelete ==
    /\ Len(OtherMutations) < MaxCommissionMutations
    /\ mutations' = Append(mutations, [hook |-> "delete",
                                       variables |-> callerVariables,
                                       attempts |-> 1])
    /\ UNCHANGED <<authVars, pageVars, apiVars, queryCache>>
    /\ Did(<<"mutateDelete">>)

\* useCreateCommission: onSuccess(newCommission)
createOnSuccess(newCommission) ==
    queryCache' =
        setQueryData(invalidateQueries(queryCache, <<"commissions">>),
                     CreateSeedKey(newCommission.commissionId), newCommission)

\* the create mutation resolved: onSuccess runs, then handleSubmit continues
\* after its await and navigates
CreateCommissionSucceeded ==
    /\ \E i \in 1..Len(mutations), c \in Commissions :
          /\ mutations[i].hook = "create"
          /\ createOnSuccess(c)
          /\ mutations' = RemoveAt(mutations, i)
          /\ Did(<<"createSucceeded", c>>)
    /\ route' = CommissionListRoute
    /\ UNCHANGED <<lastAlert, estimateVars, partnerVars, writeVars>>
    /\ UNCHANGED <<authVars, apiVars>>

\* useDeleteCommission: onSuccess()
deleteOnSuccess ==
    queryCache' = invalidateQueries(queryCache, <<"commissions">>)

DeleteCommissionSucceeded ==
    /\ \E i \in 1..Len(mutations) :
          /\ mutations[i].hook = "delete"
          /\ mutations' = RemoveAt(mutations, i)
    /\ deleteOnSuccess
    /\ UNCHANGED <<authVars, pageVars, apiVars>>
    /\ Did(<<"deleteSucceeded">>)

\* useUpdateCommission: onSuccess(updatedCommission)
updateOnSuccess(updatedCommission) ==
    queryCache' =
        invalidateQueries(
            setQueryData(queryCache,
                         UpdateSeedKey(updatedCommission.commissionId),
                         updatedCommission),
            <<"commissions">>)

UpdateCommissionSucceeded ==
    /\ \E i \in 1..Len(mutations), c \in Commissions :
          /\ mutations[i].hook = "update"
          /\ mutations' = RemoveAt(mutations, i)
          /\ updateOnSuccess(c)
          /\ Did(<<"updateSucceeded", c>>)
    /\ UNCHANGED <<authVars, pageVars, apiVars>>

\* a mutation whose failed call is sent again
mutationOnError_Retry(i, error, op) ==
    /\ mutations' = [mutations EXCEPT ![i].attempts = @ + 1]
    /\ UNCHANGED queryCache
    /\ Did(<<op, mutations[i], error, [status |-> "pending", reason |-> error]>>)

\* the mutationFn's promise rejected: the hooks set neither retry nor onError,
\* so the mutation is over and the promise mutateAsync returned rejects with
\* the error
mutationOnError(i, error, op) ==
    /\ mutations' = RemoveAt(mutations, i)
    /\ UNCHANGED queryCache
    /\ Did(<<op, mutations[i], error, [status |-> "rejected", reason |-> error]>>)

\* the create mutation rejected: handleSubmit's catch block logs the error
CreateCommissionFailed ==
    /\ \E i \in 1..Len(mutations), error \in MutationErrors :
          /\ mutations[i].hook = "create"
          /\ mutationOnError(i, error, "createFailed")
    /\ UNCHANGED <<authVars, pageVars, apiVars>>

UpdateCommissionFailed ==
    /\ \E i \in 1..Len(mutations), error \in MutationErrors :
          /\ mutations[i].hook = "update"
          /\ mutationOnError(i, error, "updateFailed")
    /\ UNCHANGED <<authVars, pageVars, apiVars>>

DeleteCommissionFailed ==
    /\ \E i \in 1..Len(mutations), error \in MutationErrors :
          /\ mutations[i].hook = "delete"
          /\ mutationOnError(i, error, "deleteFailed")
    /\ UNCHANGED <<authVars, pageVars, apiVars>>

CacheNext ==
    \/ FetchCommissionsResolved
    \/ FetchCommissionResolved
    \/ WriteHandleSubmit
    \/ MutateUpdate
    \/ MutateDelete
    \/ CreateCommissionSucceeded
    \/ DeleteCommissionSucceeded
    \/ UpdateCommissionSucceeded
    \/ CreateCommissionFailed
    \/ UpdateCommissionFailed
    \/ DeleteCommissionFailed

SpecCache == CacheInit /\ [][CacheNext]_vars

\* the list query is not served from the cache as fresh
ListInvalidated ==
    ListKey \in DOMAIN queryCache => queryCache[ListKey].isInvalidated

\* ------------------------------------------- claims on useCommissions.ts

\* C7 (as claimed): after every successful create or update mutation the list
\* key is invalidated and the item key the by-id hook reads, [resourceName, id]
\* with id the returned entity's commissionId, holds the returned entity.
C7_MutationSeedsItemKey ==
    lastOp[1] \in {"createSucceeded", "updateSucceeded"} =>
        /\ ListInvalidated
        /\ ItemKey(lastOp[2].commissionId) \in DOMAIN queryCache
        /\ queryCache[ItemKey(lastOp[2].commissionId)].data = lastOp[2]

\* C12: when a commission mutation's API call fails, the promise given to the
\* caller rejects with the error, the mutation is over after its single
\* attempt, the query cache is left exactly as it was, and the commission form
\* stays on its route.
C12_FailureSurfacedNoRetry ==
    [][lastOp'[1] \in {"createFailed", "updateFailed", "deleteFailed"} =>
          /\ lastOp'[4].status = "rejected"
          /\ lastOp'[4].reason = lastOp'[3]
          /\ lastOp'[2].attempts = 1
          /\ Len(mutations') = Len(mutations) - 1
          /\ queryCache' = queryCache
          /\ route' = route]_vars

\* a create submitted from the form has failed while the list query was cached
\* fresh: the list is still fresh and the form is still displayed
C12_Witness ==
    /\ lastOp[1] = "createFailed"
    /\ ListKey \in DOMAIN queryCache
    /\ ~queryCache[ListKey].isInvalidated
    /\ route = CommissionWriteRoute
    /\ mutations = <<>>

\* ------------------------------------------ pages/partners/MyEstimates.tsx

\* estimate ids the server assigns are 1..MaxEstimateId
MaxEstimateId == 2

\* handleDelete calls that may be suspended at their await at once
MaxDeletesInFlight == 2

EstimateIds == 1..MaxEstimateId

\* the routes the two pages are mounted at
MyEstimatesRoute == "MyEstimates"

PartnerEditRoute == "PartnerEdit"

\* the elements of a sequence
Range(seq) == {seq[i] : i \in 1..Len(seq)}

\* the lists GET /partner/estimate/list may return: estimates with distinct
\* ids, in any order
EstimateLists ==
    {l \in UNION {[1..n -> EstimateIds] : n \in 0..MaxEstimateId} :
        Cardinality(Range(l)) = Len(l)}

\* the storage a page is opened with: nothing (logged out), or the two
\* tokens a login wrote
SessionStorageStates ==
    {<<>>, setItem(setItem(<<>>, "token", "t1"), "refreshToken", "t2")}

\* estimates.filter((estimate) => estimate.id !== id)
FilterOut(list, id) == SelectSeq(list, LAMBDA e : e /= id)

PagesInit ==
    /\ isAuthenticated = FALSE
    /\ member = null
    /\ loading = TRUE
    /\ mounted = FALSE
    /\ storage \in SessionStorageStates
    /\ inflight = <<>>
    /\ queryCache = <<>>
    /\ mutations = <<>>
    /\ apiCalls = <<>>
    /\ route \in {MyEstimatesRoute, PartnerEditRoute}
    /\ lastAlert = null
    /\ estimates = <<>>
    /\ isLoading = FALSE
    /\ listFetch = "idle"
    /\ deletes = <<>>
    /\ deleted = {}
    /\ partner = null
    /\ formData = [password |-> "", confirmPassword |-> "", phoneNumber |-> "",
                   managerName |-> ""]
    /\ errors = [password |-> "", confirmPassword |-> "", phoneNumber |-> "",
                 managerName |-> "", general |-> ""]
    /\ updates = 0
    /\ withdraws = 0
    /\ form = InitialForm
    /\ lastOp = <<"none">>
    /\ prevOp = <<"none">>

\* useEffect(() => { fetchEstimates() }, []) up to the await
FetchEstimates ==
    /\ route = MyEstimatesRoute
    /\ listFetch = "idle"
    /\ isLoading' = TRUE
    /\ listFetch' = "pending"
    /\ UNCHANGED <<estimates, deletes, deleted, route, lastAlert>>
    /\ UNCHANGED <<authVars, cacheVars, partnerVars, writeVars, apiVars>>
    /\ Did(<<"fetchEstimates">>)

\* fetchEstimates after the await, the list read resolved
FetchEstimatesResolved ==
    /\ listFetch = "pending"
    /\ \E data \in EstimateLists :
          estimates' = data /\ Did(<<"fetchEstimatesResolved", data>>)
    /\ isLoading' = FALSE
    /\ listFetch' = "settled"
    /\ UNCHANGED <<deletes, deleted, route, lastAlert>>
    /\ UNCHANGED <<authVars, cacheVars, partnerVars, writeVars, apiVars>>

\* the rejected list read, had setIsLoading(false) sat in the try block only
FetchEstimatesRejected_StillLoading ==
    /\ listFetch = "pending"
    /\ listFetch' = "settled"
    /\ UNCHANGED <<estimates, isLoading, deletes, deleted, route, lastAlert>>
    /\ UNCHANGED <<authVars, cacheVars, partnerVars, writeVars, apiVars>>
    /\ lastOp' = <<"fetchEstimatesRejected">> /\ UNCHANGED prevOp

\* fetchEstimates after the await, the list read rejected
FetchEstimatesRejected ==
    /\ listFetch = "pending"
    /\ isLoading' = FALSE
    /\ listFetch' = "settled"
    /\ UNCHANGED <<estimates, deletes, deleted, route, lastAlert>>
    /\ UNCHANGED <<authVars, cacheVars, partnerVars, writeVars, apiVars>>
    /\ Did(<<"fetchEstimatesRejected">>)

\* handleDelete, had it sent the request before looking at the confirmation
handleDelete_NoConfirm(id, confirmed) ==
    /\ deletes' = Append(deletes, [id |-> id, estimates |-> estimates])
    /\ UNCHANGED <<estimates, isLoading, listFetch, deleted, lastAlert>>

\* handleDelete(id) up to the await; confirmed is what window.confirm returned
handleDelete(id, confirmed) ==
    /\ deletes' = IF confirmed
                  THEN Append(deletes, [id |-> id, estimates |-> estimates])
                  ELSE deletes
    /\ UNCHANGED <<estimates, isLoading, listFetch, deleted, lastAlert>>

\* the delete button of a displayed estimate is clicked
HandleDelete ==
    /\ route = MyEstimatesRoute
    /\ Len(deletes) < MaxDeletesInFlight
    /\ \E id \in Range(estimates), confirmed \in BOOLEAN :
          handleDelete(id, confirmed) /\ Did(<<"handleDelete", id, confirmed>>)
    /\ UNCHANGED route
    /\ UNCHANGED <<authVars, cacheVars, partnerVars, writeVars, apiVars>>

\* handleDelete after the await, deleteEstimate resolved
deleteResolved(i) ==
    /\ estimates' = FilterOut(deletes[i].estimates, deletes[i].id)
    /\ deletes' = RemoveAt(deletes, i)
    /\ deleted' = deleted \cup {deletes[i].id}
    /\ UNCHANGED <<isLoading, listFetch, lastAlert>>

DeleteResolved ==
    /\ \E i \in 1..Len(deletes) :
          deleteResolved(i) /\ Did(<<"deleteResolved", deletes[i].id>>)
    /\ UNCHANGED route
    /\ UNCHANGED <<authVars, cacheVars, partnerVars, writeVars, apiVars>>

\* handleDelete after the await, deleteEstimate rejected: the catch block
deleteRejected(i) ==
    /\ lastAlert' = "delete failed"
    /\ deletes' = RemoveAt(deletes, i)
    /\ UNCHANGED <<estimates, isLoading, listFetch, deleted>>

DeleteRejected ==
    /\ \E i \in 1..Len(deletes) :
          deleteRejected(i) /\ Did(<<"deleteRejected", deletes[i].id>>)
    /\ UNCHANGED route
    /\ UNCHANGED <<authVars, cacheVars, partnerVars, writeVars, apiVars>>

\* handleSendEstimate(estimateId)
HandleSendEstimate ==
    /\ route = MyEstimatesRoute
    /\ estimates /= <<>>
    /\ lastAlert' = "estimate sent"
    /\ UNCHANGED <<estimateVars, route>>
    /\ UNCHANGED <<authVars, cacheVars, partnerVars, writeVars, apiVars>>
    /\ Did(<<"handleSendEstimate">>)

\* the edit button: navigate(`/editestimate/${estimate.id}`)
NavigateEditEstimate ==
    /\ route = MyEstimatesRoute
    /\ estimates /= <<>>
    /\ route' = "/editestimate"
    /\ UNCHANGED <<estimateVars, lastAlert>>
    /\ UNCHANGED <<authVars, cacheVars, partnerVars, writeVars, apiVars>>
    /\ Did(<<"navigate">>)

MyEstimatesNext ==
    \/ FetchEstimates
    \/ FetchEstimatesResolved
    \/ FetchEstimatesRejected
    \/ HandleDelete
    \/ DeleteResolved
    \/ DeleteRejected
    \/ HandleSendEstimate
    \/ NavigateEditEstimate

\* ------------------------------------------ pages/partners/PartnerEdit.tsx

\* update or withdraw mutations that may be in flight at once, of each kind
MaxMutationsInFlight == 1

\* what the user may type in the password and confirmPassword inputs
Passwords == {"", "abc", "abcd", "Abcd123!"}

\* the passwords validatePassword accepts
ValidPasswords == {"Abcd123!"}

\* what the user may type in the phoneNumber input
PhoneNumbers == {"010-1234-5678", "123"}

\* the phone numbers validatePhoneNumber accepts
ValidPhoneNumbers == {"010-1234-5678"}

\* what the user may type in the managerName input
ManagerNames == {"kim", "lee"}

\* the partner records useCurrentPartner may return, by managerName
PartnerData ==
    [n \in ManagerNames |-> [phoneNumber |-> "010-1234-5678", managerName |-> n]]

Partners == DOMAIN PartnerData

\* the inputs handleChange serves, each with the values it may receive
FieldValues ==
    [password |-> Passwords, confirmPassword |-> Passwords,
     phoneNumber |-> PhoneNumbers, managerName |-> ManagerNames]

\* utils/validationUtils: each check returns a message, empty for "valid"
validatePhoneNumber(value) ==
    [message |-> IF value \in ValidPhoneNumbers THEN "" ELSE "invalid phone number"]

validatePassword(value) ==
    [message |-> IF value \in ValidPasswords THEN "" ELSE "invalid password"]

validateConfirmPassword(password, confirmPassword) ==
    [message |-> IF password = confirmPassword THEN "" ELSE "passwords differ"]

\* useCurrentPartner resolved with a (new) partner record: the effect on
\* [partner] refills the form and empties both password inputs
PartnerLoaded ==
    /\ route = PartnerEditRoute
    /\ \E p \in Partners :
          /\ p /= partner
          /\ partner' = p
          /\ formData' = [password |-> "", confirmPassword |-> "",
                          phoneNumber |-> PartnerData[p].phoneNumber,
                          managerName |-> PartnerData[p].managerName]
    /\ UNCHANGED <<errors, updates, withdraws, route, lastAlert>>
    /\ UNCHANGED <<authVars, cacheVars, estimateVars, writeVars, apiVars>>
    /\ Did(<<"partnerLoaded">>)

\* handleChange's password branch, had it not re-validated confirmPassword
errorsAfterChange_NoRevalidation(name, value) ==
    IF name = "phoneNumber"
    THEN [errors EXCEPT ![name] = validatePhoneNumber(value).message]
    ELSE IF name = "password"
    THEN [errors EXCEPT ![name] = validatePassword(value).message]
    ELSE IF name = "confirmPassword"
    THEN [errors EXCEPT
            ![name] = validateConfirmPassword(formData.password, value).message]
    ELSE [errors EXCEPT ![name] = ""]

\* the errors handleChange leaves: its setErrors calls applied in order
errorsAfterChange(name, value) ==
    IF name = "phoneNumber"
    THEN [errors EXCEPT ![name] = validatePhoneNumber(value).message]
    ELSE IF name = "password"
    THEN LET confirmed ==
                 IF Truthy(formData.confirmPassword)
                 THEN [errors EXCEPT !.confirmPassword =
                         validateConfirmPassword(
                             value, formData.confirmPassword).message]
                 ELSE errors
         IN  [confirmed EXCEPT ![name] = validatePassword(value).message]
    ELSE IF name = "confirmPassword"
    THEN [errors EXCEPT
            ![name] = validateConfirmPassword(formData.password, value).message]
    ELSE [errors EXCEPT ![name] = ""]

\* handleChange(e), e.target = {name, value}
handleChange(name, value) ==
    /\ formData' = [formData EXCEPT ![name] = value]
    /\ errors' = errorsAfterChange(name, value)
    /\ UNCHANGED <<partner, updates, withdraws>>

HandleChange ==
    /\ route = PartnerEditRoute
    /\ partner /= null
    /\ \E name \in DOMAIN FieldValues :
          \E value \in FieldValues[name] :
              handleChange(name, value) /\ Did(<<"handleChange", name>>)
    /\ UNCHANGED <<route, lastAlert>>
    /\ UNCHANGED <<authVars, cacheVars, estimateVars, writeVars, apiVars>>

\* the condition under which handleSubmit returns before the mutation
SubmitBlocked ==
    \/ Truthy(errors.phoneNumber)
    \/ Truthy(errors.password)
    \/ Truthy(errors.confirmPassword)
    \/ (Truthy(formData.password) /\ formData.password /= formData.confirmPassword)

\* handleSubmit(e) up to the await
handleSubmit ==
    IF SubmitBlocked
    THEN /\ errors' = [errors EXCEPT !.general = "check the input"]
         /\ UNCHANGED <<partner, formData, updates, withdraws>>
    ELSE /\ updates' = updates + 1
         /\ UNCHANGED <<partner, formData, errors, withdraws>>

HandleSubmit ==
    /\ route = PartnerEditRoute
    /\ partner /= null
    /\ updates < MaxMutationsInFlight
    /\ handleSubmit
    /\ Did(<<"handleSubmit", SubmitBlocked>>)
    /\ UNCHANGED <<route, lastAlert>>
    /\ UNCHANGED <<authVars, cacheVars, estimateVars, writeVars, apiVars>>

\* handleSubmit after the await, the update resolved: navigate(`/pt/${email}`)
UpdateResolved ==
    /\ updates > 0
    /\ updates' = updates - 1
    /\ route' = "/pt"
    /\ UNCHANGED <<partner, formData, errors, withdraws, lastAlert>>
    /\ UNCHANGED <<authVars, cacheVars, estimateVars, writeVars, apiVars>>
    /\ Did(<<"updateResolved">>)

\* handleSubmit after the await, the update rejected: the catch block
UpdateRejected ==
    /\ updates > 0
    /\ updates' = updates - 1
    /\ errors' = [errors EXCEPT !.general = "update failed"]
    /\ UNCHANGED <<partner, formData, withdraws, route, lastAlert>>
    /\ UNCHANGED <<authVars, cacheVars, estimateVars, writeVars, apiVars>>
    /\ Did(<<"updateRejected">>)

\* handleWithdraw() up to the await; confirmed is what window.confirm returned
handleWithdraw(confirmed) ==
    /\ withdraws' = IF confirmed THEN withdraws + 1 ELSE withdraws
    /\ UNCHANGED <<partner, formData, errors, updates>>

HandleWithdraw ==
    /\ route = PartnerEditRoute
    /\ partner /= null
    /\ withdraws < MaxMutationsInFlight
    /\ \E confirmed \in BOOLEAN :
          handleWithdraw(confirmed) /\ Did(<<"handleWithdraw", confirmed>>)
    /\ UNCHANGED <<route, lastAlert>>
    /\ UNCHANGED <<authVars, cacheVars, estimateVars, writeVars, apiVars>>

\* handleWithdraw after the await, the withdrawal resolved
WithdrawResolved ==
    /\ withdraws > 0
    /\ withdraws' = withdraws - 1
    /\ lastAlert' = "withdrawn"
    /\ storage' = removeItem(removeItem(storage, "token"), "refreshToken")
    /\ route' = "/"
    /\ UNCHANGED <<partner, formData, errors, updates>>
    /\ UNCHANGED <<sessionVars, cacheVars, estimateVars, writeVars, apiVars>>
    /\ Did(<<"withdrawResolved">>)

\* handleWithdraw after the await, the withdrawal rejected: the catch block
WithdrawRejected ==
    /\ withdraws > 0
    /\ withdraws' = withdraws - 1
    /\ lastAlert' = "withdraw failed"
    /\ UNCHANGED <<partner, formData, errors, updates, route>>
    /\ UNCHANGED <<authVars, cacheVars, estimateVars, writeVars, apiVars>>
    /\ Did(<<"withdrawRejected">>)

\* the cancel button: navigate(`/pt/${email}`)
NavigateCancel ==
    /\ route = PartnerEditRoute
    /\ partner /= null
    /\ route' = "/pt"
    /\ UNCHANGED <<partnerVars, lastAlert>>
    /\ UNCHANGED <<authVars, cacheVars, estimateVars, writeVars, apiVars>>
    /\ Did(<<"navigate">>)

PartnerEditNext ==
    \/ PartnerLoaded
    \/ HandleChange
    \/ HandleSubmit
    \/ UpdateResolved
    \/ UpdateRejected
    \/ HandleWithdraw
    \/ WithdrawResolved
    \/ WithdrawRejected
    \/ NavigateCancel

PagesNext == MyEstimatesNext \/ PartnerEditNext

SpecPages == PagesInit /\ [][PagesNext]_vars

\* ------------------------------------------------- claims on the pages

\* C8 (as claimed): a step in which a confirmed delete's request resolves
\* removes exactly the entries with that id from the displayed list and leaves
\* every other entry; a step in which it rejects shows the generic alert and
\* leaves the displayed list unchanged.
C8_DeleteOutcome ==
    [][/\ lastOp'[1] = "deleteResolved" =>
            estimates' = FilterOut(estimates, lastOp'[2])
       /\ lastOp'[1] = "deleteRejected" =>
            /\ lastAlert' = "delete failed"
            /\ estimates' = estimates]_vars

\* C9: a delete request or a withdraw mutation is issued only by a handler
\* whose window.confirm returned true; a handler whose confirmation was
\* declined issues no request and leaves the estimate list, the form state
\* and the persisted tokens unchanged.
C9_ConfirmBeforeDestructive ==
    [][/\ Len(deletes') > Len(deletes) =>
            lastOp'[1] = "handleDelete" /\ lastOp'[3] = TRUE
       /\ withdraws' > withdraws =>
            lastOp'[1] = "handleWithdraw" /\ lastOp'[2] = TRUE
       /\ (\/ lastOp'[1] = "handleDelete" /\ lastOp'[3] = FALSE
           \/ lastOp'[1] = "handleWithdraw" /\ lastOp'[2] = FALSE) =>
            /\ deletes' = deletes
            /\ withdraws' = withdraws
            /\ updates' = updates
            /\ estimates' = estimates
            /\ formData' = formData
            /\ errors' = errors
            /\ storage' = storage]_vars

\* a delete was declined on a page showing estimates, with the tokens stored
C9_Witness ==
    /\ lastOp[1] = "handleDelete"
    /\ lastOp[3] = FALSE
    /\ estimates /= <<>>
    /\ deletes = <<>>
    /\ "token" \in DOMAIN storage

\* C10 (as claimed): a submit with a non-empty password that differs from
\* confirmPassword is blocked (no update mutation is invoked) and leaves a
\* non-empty confirmPassword error.
C10_MismatchBlockedWithError ==
    [][(/\ lastOp'[1] = "handleSubmit"
        /\ Truthy(formData.password)
        /\ formData.password /= formData.confirmPassword) =>
            /\ lastOp'[2] = TRUE
            /\ updates' = updates
            /\ errors'.confirmPassword /= ""]_vars

\* C10 (amended): a submit with a non-empty password and a non-empty
\* confirmPassword that differs from it is blocked (no update mutation is
\* invoked) and leaves a non-empty confirmPassword error; with confirmPassword
\* empty the submit is blocked too.
C10_MismatchBlocked ==
    [][(/\ lastOp'[1] = "handleSubmit"
        /\ Truthy(formData.password)
        /\ formData.password /= formData.confirmPassword) =>
            /\ lastOp'[2] = TRUE
            /\ updates' = updates
            /\ Truthy(formData.confirmPassword) => errors'.confirmPassword /= ""]_vars

\* the spec's scenario: password "abc", confirmPassword "abcd", submitted and
\* blocked with a confirmPassword error and no update in flight
C10_Witness ==
    /\ lastOp = <<"handleSubmit", TRUE>>
    /\ formData.password = "abc"
    /\ formData.confirmPassword = "abcd"
    /\ errors.confirmPassword /= ""
    /\ errors.general = "check the input"
    /\ updates = 0

\* C14: isLoading is true exactly while the mount effect's list fetch is in
\* flight; once the fetch has settled it is false, with the list replaced by
\* the result when the fetch resolved and left empty when it rejected.
C14_LoadingWhileFetching ==
    /\ isLoading <=> listFetch = "pending"
    /\ lastOp[1] = "fetchEstimatesResolved" =>
          ~isLoading /\ estimates = lastOp[2]
    /\ lastOp[1] = "fetchEstimatesRejected" =>
          ~isLoading /\ estimates = <<>>

\* the list fetch has rejected and the page has stopped loading
C14_Witness ==
    /\ lastOp[1] = "fetchEstimatesRejected"
    /\ listFetch = "settled"
    /\ ~isLoading

\* C15 (as claimed): the displayed list holds no estimate whose delete
\* request has succeeded, also when deletes overlap.
C15_NoDeletedDisplayed ==
    Range(estimates) \cap deleted = {}

\* ------------------------------- AuthProvider with the PartnerEdit page

\* the provider wraps the page: a tab opened on the partner edit page
SessionInit ==
    /\ isAuthenticated = FALSE
    /\ member = null
    /\ loading = TRUE
    /\ mounted = FALSE
    /\ storage \in SessionStorageStates
    /\ inflight = <<>>
    /\ queryCache = <<>>
    /\ mutations = <<>>
    /\ apiCalls = <<>>
    /\ route = PartnerEditRoute
    /\ lastAlert = null
    /\ estimates = <<>>
    /\ isLoading = FALSE
    /\ listFetch = "idle"
    /\ deletes = <<>>
    /\ deleted = {}
    /\ partner = null
    /\ formData = [password |-> "", confirmPassword |-> "", phoneNumber |-> "",
                   managerName |-> ""]
    /\ errors = [password |-> "", confirmPassword |-> "", phoneNumber |-> "",
                 managerName |-> "", general |-> ""]
    /\ updates = 0
    /\ withdraws = 0
    /\ form = InitialForm
    /\ lastOp = <<"none">>
    /\ prevOp = <<"none">>

SessionNext ==
    \/ AuthNext
    \/ PartnerLoaded
    \/ HandleWithdraw
    \/ WithdrawResolved
    \/ WithdrawRejected

SpecSession == SessionInit /\ [][SessionNext]_vars

\* C16 (as claimed): once the provider has mounted, isAuthenticated is true
\* exactly when a 'token' entry is in storage.
C16_FlagMatchesToken ==
    mounted => (isAuthenticated <=> "token" \in DOMAIN storage)

\* ------------------------------------------- api/estimate.ts, API functions

\* estimate API calls that may be in flight at once
MaxApiCalls == 2

ApiFunctions ==
    {"createEstimate", "updateEstimate", "deleteEstimate", "getEstimateList",
     "getCommissionList"}

\* the functions that read the token and send an Authorization header
ApiWithBearer == {"createEstimate", "updateEstimate", "deleteEstimate"}

\* what a rejected request is rejected with: a transport error (no response)
\* or a non-2xx response
ApiErrors == {"Network Error", "status 401", "status 404", "status 500"}

\* response bodies of the partner API
ApiBodies == {"body1", "body2"}

undefined == "undefined"

\* error.response: set for a server rejection, undefined for a transport error
errorResponse(error) ==
    IF error = "Network Error" THEN undefined
    ELSE IF error = "status 401" THEN "response 401"
    ELSE IF error = "status 404" THEN "response 404"
    ELSE "response 500"

\* the HTTP request each function sends
apiRequest(fn, id, token) ==
    [method |-> IF fn = "createEstimate" THEN "POST"
                ELSE IF fn = "updateEstimate" THEN "PATCH"
                ELSE IF fn = "deleteEstimate" THEN "DELETE"
                ELSE "GET",
     url |-> IF fn = "createEstimate" THEN <<"/partner/estimate">>
             ELSE IF fn \in {"updateEstimate", "deleteEstimate"}
                  THEN <<"/partner/estimate?id=", id>>
             ELSE IF fn = "getEstimateList" THEN <<"/partner/estimate/list">>
             ELSE <<"/partner/commissionlist">>,
     authorization |-> IF fn \in ApiWithBearer THEN <<"Bearer", token>>
                       ELSE <<>>]

\* the first argument of console.error in each function's catch block
apiErrorMessage(fn) ==
    IF fn = "createEstimate" THEN "Error creating estimate:"
    ELSE IF fn = "updateEstimate" THEN "Error updating estimate:"
    ELSE IF fn = "deleteEstimate" THEN "Error deleting estimate:"
    ELSE IF fn = "getEstimateList" THEN "Error fetching estimates list:"
    ELSE "Error fetching commission list:"

\* return response.data
apiReturn(response) == response.data

\* a catch block that logs and then resolves with undefined
apiCatch_Swallow(fn, error) ==
    [logged |-> <<apiErrorMessage(fn), error>>, thrown |-> undefined]

\* catch (error) { console.error(message, error); throw error; }
\* deleteEstimate logs error.response || error
apiCatch(fn, error) ==
    [logged |-> <<apiErrorMessage(fn),
                  IF fn = "deleteEstimate" /\ errorResponse(error) /= undefined
                  THEN errorResponse(error) ELSE error>>,
     thrown |-> error]

ApiInit ==
    /\ isAuthenticated = FALSE
    /\ member = null
    /\ loading = TRUE
    /\ mounted = FALSE
    /\ storage \in SessionStorageStates
    /\ inflight = <<>>
    /\ queryCache = <<>>
    /\ mutations = <<>>
    /\ apiCalls = <<>>
    /\ NoPage
    /\ lastOp = <<"none">>
    /\ prevOp = <<"none">>

\* a function is called: it reads the token, sends its one request and awaits
ApiCall ==
    /\ Len(apiCalls) < MaxApiCalls
    /\ \E fn \in ApiFunctions, id \in EstimateIds :
          LET call == [fn |-> fn,
                       request |-> apiRequest(fn, id, getItem(storage, "token")),
                       requests |-> 1]
          IN /\ apiCalls' = Append(apiCalls, call)
             /\ Did(<<"apiCall", call>>)
    /\ UNCHANGED <<authVars, cacheVars, pageVars>>

\* the awaited request resolved: the function returns the response body
ApiResolved ==
    /\ \E i \in 1..Len(apiCalls), body \in ApiBodies :
          LET response == [data |-> body, status |-> 200]
          IN /\ apiCalls' = RemoveAt(apiCalls, i)
             /\ Did(<<"apiResolved", apiCalls[i], response,
                      apiReturn(response)>>)
    /\ UNCHANGED <<authVars, cacheVars, pageVars>>

\* the awaited request rejected: the catch block runs
ApiRejected ==
    /\ \E i \in 1..Len(apiCalls), error \in ApiErrors :
          /\ apiCalls' = RemoveAt(apiCalls, i)
          /\ Did(<<"apiRejected", apiCalls[i], error,
                   apiCatch(apiCalls[i].fn, error)>>)
    /\ UNCHANGED <<authVars, cacheVars, pageVars>>

ApiNext ==
    \/ ApiCall
    \/ ApiResolved
    \/ ApiRejected

SpecApi == ApiInit /\ [][ApiNext]_vars

\* C11: every call of an estimate API function sends exactly one request; when
\* the request resolves the call ends returning the response body, and when it
\* rejects the call ends having logged the function's message and thrown the
\* very error it received, with no further request sent in either case.
C11_OneRequestReturnOrRethrow ==
    [][/\ \A i \in 1..Len(apiCalls') : apiCalls'[i].requests = 1
       /\ lastOp'[1] = "apiCall" =>
             /\ Len(apiCalls') = Len(apiCalls) + 1
             /\ lastOp'[2].fn \in ApiFunctions
       /\ lastOp'[1] = "apiResolved" =>
             /\ Len(apiCalls') = Len(apiCalls) - 1
             /\ lastOp'[2].requests = 1
             /\ lastOp'[4] = lastOp'[3].data
       /\ lastOp'[1] = "apiRejected" =>
             /\ Len(apiCalls') = Len(apiCalls) - 1
             /\ lastOp'[2].requests = 1
             /\ lastOp'[4].thrown = lastOp'[3]
             /\ lastOp'[4].logged[1] = apiErrorMessage(lastOp'[2].fn)
             /\ lastOp'[4].logged[2] \in {lastOp'[3], errorResponse(lastOp'[3])}
      ]_vars

C11_Witness ==
    /\ lastOp[1] = "apiRejected"
    /\ lastOp[2].fn = "deleteEstimate"
    /\ lastOp[3] = "status 404"
    /\ lastOp[4].thrown = "status 404"
    /\ lastOp[4].logged[2] = "response 404"
    /\ Len(apiCalls) = 1

\* --------------------------------------- api/estimate.ts, CommissionWrite

WriteInit ==
    /\ isAuthenticated = FALSE
    /\ member = null
    /\ loading = TRUE
    /\ mounted = FALSE
    /\ storage = <<>>
    /\ inflight = <<>>
    /\ queryCache = <<>>
    /\ mutations = <<>>
    /\ apiCalls = <<>>
    /\ route = CommissionWriteRoute
    /\ lastAlert = null
    /\ estimates = <<>>
    /\ isLoading = FALSE
    /\ listFetch = "idle"
    /\ deletes = <<>>
    /\ deleted = {}
    /\ partner = null
    /\ formData = [password |-> "", confirmPassword |-> "", phoneNumber |-> "",
                   managerName |-> ""]
    /\ errors = [password |-> "", confirmPassword |-> "", phoneNumber |-> "",
                 managerName |-> "", general |-> ""]
    /\ updates = 0
    /\ withdraws = 0
    /\ form = InitialForm
    /\ lastOp = <<"none">>
    /\ prevOp = <<"none">>

\* CommissionWrite.handleChange on a change event of one of the inputs
WriteHandleChange ==
    /\ route = CommissionWriteRoute
    /\ \E name \in FormFieldNames :
          \E value \in InputValues(name) :
             /\ form' = formAfterChange(form, name, value)
             /\ Ran(<<"writeChange", name, value>>)
    /\ UNCHANGED <<route, lastAlert, estimateVars, partnerVars>>
    /\ UNCHANGED <<authVars, cacheVars, apiVars>>

WriteNext ==
    \/ WriteHandleChange
    \/ WriteHandleSubmit
    \/ CreateCommissionSucceeded
    \/ CreateCommissionFailed

SpecWrite == WriteInit /\ [][WriteNext]_vars

\* C13: a change event that sets the size input to "" leaves null in the form
\* state's size, and one that sets it to a numeric string leaves that number;
\* the payload handleSubmit passes to the create mutation carries the form
\* state's size as it is, null included.
C13_EmptySizeIsNull ==
    [][/\ (lastOp'[1] = "writeChange" /\ lastOp'[2] = "size") =>
             /\ lastOp'[3] = "" => form'.size = JsNull
             /\ lastOp'[3] = "0" => form'.size = Num(0)
             /\ lastOp'[3] = "12" => form'.size = Num(12)
       /\ (lastOp'[1] = "writeSubmit" /\ lastOp'[2] = "awaiting") =>
             /\ Len(mutations') = Len(mutations) + 1
             /\ mutations'[Len(mutations')].hook = "create"
             /\ mutations'[Len(mutations')].variables.size = form.size
      ]_vars

\* the size input was set to "12" and then cleared by the last change event
\* (prevOp is the handler before that event), and the form was submitted: the
\* create mutation is in flight with a null size
C13_Witness ==
    /\ lastOp = <<"writeSubmit", "awaiting">>
    /\ prevOp[1] = "writeChange"
    /\ prevOp[2] = "size"
    /\ prevOp[3] = "12"
    /\ form.size = JsNull
    /\ Len(mutations) = 1
    /\ mutations[1].variables.size = JsNull

====
